---- MODULE Spec2Model ----
(***************************************************************************)
(* Model of the benchmark tool: hostname-affinity routing                  *)
(* (internal/parser), the worker pool and orchestrator                     *)
(* (internal/benchmark) and the statistics accumulator (internal/stats).   *)
(***************************************************************************)
EXTENDS Integers, Sequences, FiniteSets, TLC

(***************************************************************************)
(* Bounds of the model.                                                    *)
(***************************************************************************)
\* longest hostname (in bytes) fed to hostnameHash
MaxKeyLen == 2
\* largest lane count tried with hostnameHash
MaxLanes == 4

\* most raw records (after the header) in an input stream
MaxRecords == 2
\* capacity of every lane queue and of the result channel in the runs of Spec:
\* smaller than the program's, so that full channels are reached with
\* MaxRecords records
RunChannelSize == 1
\* const workerChannelSize = 10: the capacity the program makes every lane
\* queue and the result channel with
workerChannelSize == 10
\* records of the inputs that fill channels of the program's capacity
CapacityRecords == 11

\* goroutines calling Record and RecordError concurrently
NumCallers == 2
\* calls each of them makes
MaxCalls == 2
\* most successes recorded one by one before Compute, and most errors
MaxSamples == 4
MaxErrors == 1
\* most successes of an int64 duration recorded before Compute
MaxLongSamples == 3

\* worker counts (r.workers) a run is started with
WorkerCounts == {1, 2}
\* bytes hostnames are built from
KeyBytes == {0, 97, 255}
\* hostnames of the records of a benchmark run: "" and "a"
RunHosts == {<<>>, <<97>>}
\* durations time.Since can measure for one query, and for the whole run
ExecDurations == {1}
\* durations recorded between the calls of Compute on one accumulator
CallDurations == {100, 250, 400}
\* durations recorded in an accumulator that is then computed
SampleDurations == {100, 150, 200, 250, 300, 400}
\* the durations TestPercentiles records: 1 ms to 100 ms
HundredMs == [i \in 1..100 |-> i]
\* the durations TestCompute, TestComputeEvenCount and TestPercentiles record,
\* in their order and in milliseconds
TestRuns == {<<100, 200, 150, 300, 250>>, <<100, 200, 300, 400>>, HundredMs}

VARIABLES
  \* ---- hostnameHash evaluations (parser) ----
  hasher,      \* state the last fnv hasher was left in, <<hi, lo>> 16-bit halves
  numLanes,    \* lane count of the run (len(workerChannels))
  hKey,        \* hostname of the latest evaluation
  hHash,       \* hostnameHash(hKey) of the latest evaluation, -1 before any
  hLane,       \* hHash % numLanes of the latest evaluation, -1 before any
  hFirst,      \* <<hostname, hash, lane>> of the first evaluation, <<>> before any
  hEvals       \* evaluations so far: 0, 1 or 2 for two and more

hashVars == <<hasher, numLanes, hKey, hHash, hLane, hFirst, hEvals>>

VARIABLES
  \* ---- benchmark run (Runner.Run and the goroutines it starts) ----
  strictMode,      \* r.strictMode / p.strictMode
  workers,         \* r.workers
  chanCap,         \* cap(workerChannels[i]) and cap(results)
  execErrors,      \* whether r.db.Execute can fail in this run: the values of err != nil
  header,          \* what reading the header yields: "ok", "eof" or "err"
  records,         \* what the following reads yield, in order
  pos,             \* number of reads done after the header
  ctxDone,         \* ctx.Done() is closed
  workerChannels,  \* contents of each lane queue
  chanClosed,      \* whether each lane queue has been closed
  results,         \* contents of the results channel
  resultsClosed,   \* whether the results channel has been closed
  runPc,           \* where Run is
  closeIdx,        \* loop index of Run's channel-closing loop
  pdPc,            \* where ParseAndDistribute is
  pdErr,           \* what ParseAndDistribute returned
  pdParams,        \* the params ParseAndDistribute is sending
  wPc,             \* where each worker is
  wItem,           \* the params each worker took from its lane
  wResult,         \* the result each worker is publishing
  cPc,             \* where collectResults is
  runErr,          \* the error Run returned
  runStats,        \* the statistics Run returned: <<>> for nil
  \* ---- the accumulator (stats.Statistics) ----
  statistics,
  \* ---- history of the run ----
  enqueued,        \* [id, host, lane] of every params sent on a lane
  executedBy,      \* [id, host, worker] of every params a worker took
  nPublished,      \* results sent on the results channel
  pdCtxAtCall,     \* ctx.Done() was closed when ParseAndDistribute was called
  sentLog,         \* [id, host, lane] of every params sent on a lane, in order
  sentAfterCancel, \* params sent on a lane when ctx.Done() was closed
  publishedLog,    \* [id, worker] of every result sent on results, in order
  itemCount        \* per params id: times taken, executed and recorded

runVars == <<strictMode, workers, chanCap, execErrors,
             header, records, pos, ctxDone, workerChannels,
             chanClosed, results, resultsClosed, runPc, closeIdx, pdPc, pdErr,
             pdParams, wPc, wItem, wResult, cPc, runErr, runStats,
             enqueued, executedBy, nPublished, pdCtxAtCall, sentLog, sentAfterCancel,
             publishedLog, itemCount>>

VARIABLES
  \* ---- goroutines calling the accumulator's methods ----
  mu,            \* s.mu: 0 when unlocked, else the caller holding it
  callPc,        \* where each caller is in its current call
  callOp,        \* the method each caller is in: "Record" or "RecordError"
  callArg,       \* the duration passed to Record
  callReg,       \* the value of s.TotalQueries each caller loaded
  callsMade,     \* calls each caller has started
  started,       \* calls started, per method
  finished,      \* calls returned, per method
  \* ---- history of a sequential use of the accumulator ----
  recorded,      \* the durations passed to Record, in call order
  errorCalls,    \* the calls of RecordError made
  computed,      \* Compute has been called
  recomputed,    \* Compute has been called again, with no call between the two
  \* ---- the build ----
  fusedMulAdd    \* the compiler fuses x + y*z of float64 into one instruction

accVars == <<mu, callPc, callOp, callArg, callReg, callsMade, started, finished,
             recorded, errorCalls, computed, recomputed, fusedMulAdd>>

vars == <<hashVars, runVars, statistics, accVars>>

(***************************************************************************)
(* Integer helpers.  Go's % truncates towards zero.                        *)
(***************************************************************************)
GoRem(a, b) == IF a >= 0 THEN a % b ELSE 0 - ((0 - a) % b)

RECURSIVE XorBits(_, _, _)
\* bitwise XOR of the low n bits of a and b
XorBits(a, b, n) ==
  IF n = 0 THEN 0
  ELSE (((a % 2) + (b % 2)) % 2) + 2 * XorBits(a \div 2, b \div 2, n - 1)

\* all sequences over S of length at most n
RECURSIVE SeqsUpTo(_, _)
SeqsUpTo(S, n) ==
  IF n = 0 THEN {<<>>}
  ELSE LET shorter == SeqsUpTo(S, n - 1)
       IN  shorter \cup {Append(s, x) : s \in shorter, x \in S}

(***************************************************************************)
(* hash/fnv 32-bit FNV-1a.  A 32-bit word is kept as <<hi, lo>>, two       *)
(* 16-bit halves, so that no intermediate value leaves the 32-bit range.   *)
(***************************************************************************)
\* offset basis 2166136261 = 0x811C9DC5
New32a == <<33052, 40389>>

\* one byte: h ^= b, then h *= 16777619 (0x01000193 = 2^24 + 403) mod 2^32
WriteByte(h, b) ==
  LET lo == XorBits(h[2], b, 16)
      pl == lo * 403
      ph == (h[1] * 403) + (pl \div 65536) + ((lo % 256) * 256)
  IN  <<ph % 65536, pl % 65536>>

RECURSIVE Write(_, _)
Write(h, bytes) ==
  IF bytes = <<>> THEN h ELSE Write(WriteByte(h, Head(bytes)), Tail(bytes))

\* int(h.Sum32()) where int is 32 bits wide and the mask is missing
Sum32Signed(h) ==
  IF h[1] >= 32768 THEN (h[1] - 65536) * 65536 + h[2] ELSE h[1] * 65536 + h[2]

\* int(h.Sum32() & 0x7FFFFFFF)
Sum32Masked(h) == (h[1] % 32768) * 65536 + h[2]

hostnameHash(hostname) == Sum32Masked(Write(New32a, hostname))

\* the lane taken from the position of the record instead of its hostname
workerIDByPosition(hostname, numWorkers) == pos % numWorkers

\* workerID := hostnameHash(params.Hostname) % numWorkers
workerID(hostname, numWorkers) == GoRem(hostnameHash(hostname), numWorkers)


(***************************************************************************)
(* stats.Statistics.  Durations are integers (time.Duration); the mutex of *)
(* the accumulator makes each method one step for every other goroutine.   *)
(***************************************************************************)
\* Go's integer division truncates towards zero
GoDiv(a, b) == IF a >= 0 THEN a \div b ELSE 0 - ((0 - a) \div b)

\* the distinct durations in ascending order: a sort that drops repeated values
SortDistinct(ds) ==
  LET vs == {ds[i] : i \in 1..Len(ds)}
  IN  [k \in 1..Cardinality(vs) |->
         CHOOSE v \in vs : Cardinality({w \in vs : w < v}) = k - 1]

\* slices.Sort: ascending; the k-th of the result is the duration that fewer
\* than k durations are smaller than and at least k are not larger than
Sort(ds) ==
  [k \in 1..Len(ds) |->
     CHOOSE v \in {ds[i] : i \in 1..Len(ds)} :
       /\ Cardinality({i \in 1..Len(ds) : ds[i] < v}) < k
       /\ Cardinality({i \in 1..Len(ds) : ds[i] <= v}) >= k]

RECURSIVE SumSeq(_)
\* for _, d := range s.durations { sum += d }, halves added up separately
SumSeq(ds) ==
  IF ds = <<>> THEN 0
  ELSE IF Len(ds) = 1 THEN ds[1]
  ELSE LET half == Len(ds) \div 2
       IN  SumSeq(SubSeq(ds, 1, half)) + SumSeq(SubSeq(ds, half + 1, Len(ds)))

\* stats.New()
New ==
  [TotalQueries |-> 0, ProcessingTime |-> 0, MinTime |-> 0, MaxTime |-> 0,
   MedianTime |-> 0, AvgTime |-> 0, P90 |-> 0, P95 |-> 0, P99 |-> 0,
   durations |-> <<>>]

\* a Record that counts the query twice
RecordTwice(s, duration) ==
  [s EXCEPT !.TotalQueries = @ + 2, !.durations = Append(@, duration)]

Record(s, duration) ==
  [s EXCEPT !.TotalQueries = @ + 1, !.durations = Append(@, duration)]

\* an error recorded as a sample of no duration
RecordErrorAsSample(s) ==
  [s EXCEPT !.TotalQueries = @ + 1, !.durations = Append(@, 0)]

RecordError(s) == [s EXCEPT !.TotalQueries = @ + 1]

(***************************************************************************)
(* float64.  percentile computes in float64 and converts the result to a   *)
(* time.Duration.  A float64 is [m, e] with value m * 2^e, m = 0 or        *)
(* 2^52 <= m < 2^53; every operation rounds its exact result to the        *)
(* nearest such value, ties to the even m.  m and the exact results exceed *)
(* the integers of the checker, so they are kept as sequences of limbs     *)
(* (digits in base 2^15, least significant first, no leading zero limb).   *)
(***************************************************************************)
Limb == 2^15

\* the sequences of limbs
Limbs == Seq(Nat)

\* the float64 values
Float64 == [m : Limbs, e : Int]

\* number of binary digits of k
Bits[k \in Nat] == IF k = 0 THEN 0 ELSE 1 + Bits[k \div 2]

LimbBits == Bits[Limb] - 1

Trim[a \in Limbs] ==
  IF a # <<>> /\ a[Len(a)] = 0 THEN Trim[SubSeq(a, 1, Len(a) - 1)] ELSE a

\* the limbs of the integer k >= 0
BigOf[k \in Nat] == IF k = 0 THEN <<>> ELSE <<k % Limb>> \o BigOf[k \div Limb]

\* the integer of the limbs a
BigInt[a \in Limbs] == IF a = <<>> THEN 0 ELSE Head(a) + (Limb * BigInt[Tail(a)])

AddC[a \in Limbs, b \in Limbs, c \in Nat] ==
  IF a = <<>> /\ b = <<>> THEN (IF c = 0 THEN <<>> ELSE <<c>>)
  ELSE
    LET x == (IF a = <<>> THEN 0 ELSE Head(a)) + (IF b = <<>> THEN 0 ELSE Head(b)) + c
    IN  <<x % Limb>> \o AddC[IF a = <<>> THEN <<>> ELSE Tail(a),
                             IF b = <<>> THEN <<>> ELSE Tail(b), x \div Limb]

BigAdd[a \in Limbs, b \in Limbs] == AddC[a, b, 0]

SubB[a \in Limbs, b \in Limbs, borrow \in Nat] ==
  IF a = <<>> THEN <<>>
  ELSE
    LET x == (Head(a) - (IF b = <<>> THEN 0 ELSE Head(b))) - borrow
    IN  <<(x + Limb) % Limb>> \o SubB[Tail(a), IF b = <<>> THEN <<>> ELSE Tail(b),
                                      IF x < 0 THEN 1 ELSE 0]

\* a - b for a >= b
BigSub[a \in Limbs, b \in Limbs] == Trim[SubB[a, b, 0]]

\* a * k + c for one limb k
MulC[a \in Limbs, k \in Nat, c \in Nat] ==
  IF a = <<>> THEN (IF c = 0 THEN <<>> ELSE <<c>>)
  ELSE LET x == (Head(a) * k) + c
       IN  <<x % Limb>> \o MulC[Tail(a), k, x \div Limb]

MulLimbs[a \in Limbs, b \in Limbs] ==
  IF a = <<>> THEN <<>>
  ELSE BigAdd[MulC[b, Head(a), 0], <<0>> \o MulLimbs[Tail(a), b]]

BigMul[a \in Limbs, b \in Limbs] == Trim[MulLimbs[a, b]]

\* limbs 1..i of the quotient of a by k <= Limb, r the remainder carried down
DivQ[a \in Limbs, k \in Nat, i \in Nat, r \in Nat] ==
  IF i = 0 THEN <<>>
  ELSE LET x == (r * Limb) + a[i]
       IN  DivQ[a, k, i - 1, x % k] \o <<x \div k>>

\* the remainder of a by k <= Limb
DivR[a \in Limbs, k \in Nat, i \in Nat, r \in Nat] ==
  IF i = 0 THEN r ELSE DivR[a, k, i - 1, ((r * Limb) + a[i]) % k]

LessFrom[a \in Limbs, b \in Limbs, i \in Nat] ==
  IF i = 0 THEN FALSE
  ELSE IF a[i] # b[i] THEN a[i] < b[i]
  ELSE LessFrom[a, b, i - 1]

BigLess[a \in Limbs, b \in Limbs] ==
  IF Len(a) # Len(b) THEN Len(a) < Len(b) ELSE LessFrom[a, b, Len(a)]

BitLen[a \in Limbs] ==
  IF a = <<>> THEN 0 ELSE (LimbBits * (Len(a) - 1)) + Bits[a[Len(a)]]

\* a * 2^s
ShiftLeft[a \in Limbs, s \in Nat] ==
  IF a = <<>> THEN <<>>
  ELSE [i \in 1..(s \div LimbBits) |-> 0] \o MulC[a, 2^(s % LimbBits), 0]

\* a \div 2^s
ShiftRight[a \in Limbs, s \in Nat] ==
  LET hi == SubSeq(a, (s \div LimbBits) + 1, Len(a))
  IN  Trim[DivQ[hi, 2^(s % LimbBits), Len(hi), 0]]

\* the float64 nearest to N * 2^e (N limbs), ties to even
Round[N \in Limbs, e \in Int] ==
  LET b == BitLen[N]
  IN  IF b = 0 THEN [m |-> <<>>, e |-> 0]
      ELSE IF b <= 53 THEN [m |-> ShiftLeft[N, 53 - b], e |-> e - (53 - b)]
      ELSE
        LET s    == b - 53
            q    == ShiftRight[N, s]
            r    == BigSub[N, ShiftLeft[q, s]]
            half == ShiftLeft[<<1>>, s - 1]
            up   == BigLess[half, r] \/ (r = half /\ Head(q) % 2 = 1)
            q1   == IF up THEN BigAdd[q, <<1>>] ELSE q
        IN  IF BitLen[q1] > 53 THEN [m |-> ShiftRight[q1, 1], e |-> e + s + 1]
            ELSE [m |-> q1, e |-> e + s]

\* float64(k) for an integer k >= 0
FloatOf[k \in Nat] == Round[BigOf[k], 0]

\* x * y
FloatMul[x \in Float64, y \in Float64] == Round[BigMul[x.m, y.m], x.e + y.e]

\* float64(p) / float64(k) for integers p >= 0 and 0 < k <= Limb: the quotient
\* to 76 binary places, and a last place that says whether it is inexact
FloatQuo[p \in Nat, k \in Nat] ==
  LET num == ShiftLeft[BigOf[p], 75]
      q   == Trim[DivQ[num, k, Len(num), 0]]
      rem == DivR[num, k, Len(num), 0]
  IN  Round[BigAdd[ShiftLeft[q, 1], IF rem = 0 THEN <<>> ELSE <<1>>], 0 - 76]

FloatMinExp[a \in Int, b \in Int] == IF a < b THEN a ELSE b

\* x + y
FloatAdd[x \in Float64, y \in Float64] ==
  LET e == FloatMinExp[x.e, y.e]
  IN  Round[BigAdd[ShiftLeft[x.m, x.e - e], ShiftLeft[y.m, y.e - e]], e]

\* x - y for x >= y
FloatSub[x \in Float64, y \in Float64] ==
  LET e == FloatMinExp[x.e, y.e]
  IN  Round[BigSub[ShiftLeft[x.m, x.e - e], ShiftLeft[y.m, y.e - e]], e]

\* z + x*y rounded once (a fused multiply-add instruction)
FloatFMA[x \in Float64, y \in Float64, z \in Float64] ==
  LET e == FloatMinExp[z.e, x.e + y.e]
  IN  Round[BigAdd[ShiftLeft[z.m, z.e - e],
                   ShiftLeft[BigMul[x.m, y.m], (x.e + y.e) - e]], e]

\* int(x), time.Duration(x): the fraction is discarded
FloatTrunc[x \in Float64] ==
  IF x.e >= 0 THEN BigInt[ShiftLeft[x.m, x.e]]
  ELSE BigInt[ShiftRight[x.m, 0 - x.e]]

\* p / 100, for the percentiles Compute asks for
Percent == [p \in {90, 95, 99} |-> FloatQuo[p, 100]]

\* percentile(p) on sorted durations ds (1-based here, 0-based in the code).
\* The Go language lets a build compute x + y*z with one rounding (a fused
\* multiply-add) or with two; `fused` says which this build does.
percentile(ds, p, fused) ==
  IF Len(ds) = 0 THEN 0
  ELSE
    LET n     == FloatOf[Len(ds)]
        rank  == FloatMul[Percent[p], FloatSub[n, FloatOf[1]]]
        lower == FloatTrunc[rank]
        upper == lower + 1
    IN  IF upper >= Len(ds) THEN ds[Len(ds)]
        ELSE
          LET fraction == FloatSub[rank, FloatOf[lower]]
              low      == FloatOf[ds[lower + 1]]
              step     == FloatOf[ds[upper + 1] - ds[lower + 1]]
          IN  FloatTrunc[IF fused THEN FloatFMA[fraction, step, low]
                         ELSE FloatAdd[low, FloatMul[fraction, step]]]

\* Compute() from the sort on, for at least one duration
Summarize(s, fused) ==
  LET ds  == Sort(s.durations)
      n   == Len(ds)
      mid == n \div 2
  IN  [s EXCEPT
        !.durations  = ds,
        !.MinTime    = ds[1],
        !.MaxTime    = ds[n],
        !.MedianTime = IF n % 2 = 0 THEN GoDiv(ds[mid] + ds[mid + 1], 2)
                       ELSE ds[mid + 1],
        !.AvgTime    = GoDiv(SumSeq(ds), n),
        !.P90        = percentile(ds, 90, fused),
        !.P95        = percentile(ds, 95, fused),
        !.P99        = percentile(ds, 99, fused)]

\* a Compute that finds the minimum by a scan starting from the largest
\* duration, and leaves that in MinTime when there is nothing to scan
ComputeMinByScan(s, fused) ==
  IF Len(s.durations) = 0 THEN [s EXCEPT !.MinTime = (2^30 - 1) + 2^30]
  ELSE Summarize(s, fused)

\* a Compute that adds the durations to the average the field already holds
ComputeRunningTotal(s, fused) ==
  IF Len(s.durations) = 0 THEN s
  ELSE [Summarize(s, fused) EXCEPT
          !.AvgTime = GoDiv(s.AvgTime + SumSeq(s.durations), Len(s.durations))]

\* a Compute that takes the median before it sorts the durations
ComputeMedianFirst(s, fused) ==
  IF Len(s.durations) = 0 THEN s
  ELSE LET n   == Len(s.durations)
           mid == n \div 2
       IN  [Summarize(s, fused) EXCEPT
              !.MedianTime = IF n % 2 = 0
                               THEN GoDiv(s.durations[mid] + s.durations[mid + 1], 2)
                               ELSE s.durations[mid + 1]]

\* a Compute that counts the durations again into TotalQueries
ComputeCountingSuccesses(s, fused) ==
  IF Len(s.durations) = 0 THEN [s EXCEPT !.TotalQueries = 0]
  ELSE [Summarize(s, fused) EXCEPT !.TotalQueries = Len(s.durations)]

\* Compute() in a build that fuses the multiply-add of percentile or not
Compute(s, fused) ==
  IF Len(s.durations) = 0 THEN s ELSE Summarize(s, fused)

(***************************************************************************)
(* int64.  A time.Duration is an int64 of nanoseconds: the additions of    *)
(* Compute wrap around at 2^63, and float64 holds the durations above 2^53 *)
(* only rounded.  The definitions above compute with durations that the    *)
(* integers of the checker hold, where neither happens; the ones below     *)
(* compute the same statements with an int64 kept as the limbs of its      *)
(* value modulo 2^64 (two's complement: 2^63 and above are the negatives). *)
(***************************************************************************)
TwoTo63 == ShiftLeft[<<1>>, 63]
TwoTo64 == ShiftLeft[<<1>>, 64]

\* the int64 of the integer k >= 0 of the checker
Int64Of[k \in Nat] == BigOf[k]

\* a < 0
Negative64[a \in Limbs] == ~BigLess[a, TwoTo63]

\* a < b
Less64[a \in Limbs, b \in Limbs] ==
  IF Negative64[a] # Negative64[b] THEN Negative64[a] ELSE BigLess[a, b]

\* a <= b
LessEq64[a \in Limbs, b \in Limbs] == ~Less64[b, a]

\* a + b
Add64[a \in Limbs, b \in Limbs] ==
  LET sum == BigAdd[a, b]
  IN  IF BigLess[sum, TwoTo64] THEN sum ELSE BigSub[sum, TwoTo64]

\* a / k for 0 < k <= Limb: the quotient truncated towards zero
Quo64[a \in Limbs, k \in Nat] ==
  IF Negative64[a]
    THEN LET abs == BigSub[TwoTo64, a]
             q   == Trim[DivQ[abs, k, Len(abs), 0]]
         IN  IF q = <<>> THEN <<>> ELSE BigSub[TwoTo64, q]
    ELSE Trim[DivQ[a, k, Len(a), 0]]

\* total += d over ds
Sum64[ds \in Seq(Limbs)] ==
  IF ds = <<>> THEN <<>> ELSE Add64[Sum64[SubSeq(ds, 1, Len(ds) - 1)], ds[Len(ds)]]

\* slices.Sort of int64 durations
Sort64(ds) ==
  [k \in 1..Len(ds) |->
     CHOOSE v \in {ds[i] : i \in 1..Len(ds)} :
       /\ Cardinality({i \in 1..Len(ds) : Less64[ds[i], v]}) < k
       /\ Cardinality({i \in 1..Len(ds) : LessEq64[ds[i], v]}) >= k]

\* float64(d) for an int64 d >= 0
Float64Of64[d \in Limbs] == Round[d, 0]

\* time.Duration(x) for 0 <= x < 2^63: the fraction is discarded
Duration64[x \in Float64] ==
  IF x.e >= 0 THEN ShiftLeft[x.m, x.e] ELSE ShiftRight[x.m, 0 - x.e]

\* percentile(p) on sorted non-negative int64 durations ds
percentile64(ds, p, fused) ==
  IF Len(ds) = 0 THEN <<>>
  ELSE
    LET n     == FloatOf[Len(ds)]
        rank  == FloatMul[Percent[p], FloatSub[n, FloatOf[1]]]
        lower == FloatTrunc[rank]
        upper == lower + 1
    IN  IF upper >= Len(ds) THEN ds[Len(ds)]
        ELSE
          LET fraction == FloatSub[rank, FloatOf[lower]]
              low      == Float64Of64[ds[lower + 1]]
              step     == Float64Of64[BigSub[ds[upper + 1], ds[lower + 1]]]
          IN  Duration64[IF fused THEN FloatFMA[fraction, step, low]
                         ELSE FloatAdd[low, FloatMul[fraction, step]]]

\* stats.New() with int64 durations
New64 ==
  [TotalQueries |-> 0, ProcessingTime |-> <<>>, MinTime |-> <<>>, MaxTime |-> <<>>,
   MedianTime |-> <<>>, AvgTime |-> <<>>, P90 |-> <<>>, P95 |-> <<>>, P99 |-> <<>>,
   durations |-> <<>>]

\* Compute() on non-negative int64 durations
Compute64(s, fused) ==
  IF Len(s.durations) = 0 THEN s
  ELSE
    LET ds  == Sort64(s.durations)
        n   == Len(ds)
        mid == n \div 2
    IN  [s EXCEPT
          !.durations  = ds,
          !.MinTime    = ds[1],
          !.MaxTime    = ds[n],
          !.MedianTime = IF n % 2 = 0 THEN Quo64[Add64[ds[mid], ds[mid + 1]], 2]
                         ELSE ds[mid + 1],
          !.AvgTime    = Quo64[Sum64[ds], n],
          !.P90        = percentile64(ds, 90, fused),
          !.P95        = percentile64(ds, 95, fused),
          !.P99        = percentile64(ds, 99, fused)]

\* the accumulator s of durations the checker's integers hold, as int64
Widen(s) ==
  [TotalQueries |-> s.TotalQueries,
   ProcessingTime |-> Int64Of[s.ProcessingTime],
   MinTime |-> Int64Of[s.MinTime], MaxTime |-> Int64Of[s.MaxTime],
   MedianTime |-> Int64Of[s.MedianTime], AvgTime |-> Int64Of[s.AvgTime],
   P90 |-> Int64Of[s.P90], P95 |-> Int64Of[s.P95], P99 |-> Int64Of[s.P99],
   durations |-> [i \in 1..Len(s.durations) |-> Int64Of[s.durations[i]]]]

\* durations of queries: some that the checker's integers hold, 2^53 - 1 ns,
\* 2^53 + 1 and 2^53 + 3 ns (104 days), which float64 does not hold, and
\* 2^62 ns (146 years)
LongDurations ==
  {Int64Of[100], Int64Of[250], BigSub[ShiftLeft[<<1>>, 53], <<1>>],
   BigAdd[ShiftLeft[<<1>>, 53], <<1>>], BigAdd[ShiftLeft[<<1>>, 53], <<3>>],
   ShiftLeft[<<1>>, 62]}


(***************************************************************************)
(* The record source (encoding/csv reader over the input).  A read yields  *)
(* a record or an error; time.Parse accepts a field or rejects it.         *)
(***************************************************************************)
GoodTime == "2017-01-01 08:59:22"
BadTime  == "invalid-date"

\* time.Parse("2006-01-02 15:04:05", field) returns no error
ParsesAsTime(field) == field = GoodTime

\* what one p.reader.Read() can yield after the header
Reads ==
  {[err |-> FALSE, record |-> <<h, GoodTime, GoodTime>>] : h \in RunHosts}
    \cup {[err |-> FALSE, record |-> <<<<97>>, BadTime, GoodTime>>],
          [err |-> TRUE, record |-> <<>>]}

\* parseRecord without the check of the start time
parseRecordNoStartCheck(record) ==
  IF Len(record) # 3 THEN [err |-> "invalid record", Hostname |-> <<>>]
  ELSE IF ~ParsesAsTime(record[3]) THEN [err |-> "invalid end time", Hostname |-> <<>>]
  ELSE [err |-> "nil", Hostname |-> record[1]]

\* parseRecord: the error ("nil" for none) and the hostname of the params
parseRecord(record) ==
  IF Len(record) # 3 THEN [err |-> "invalid record", Hostname |-> <<>>]
  ELSE IF ~ParsesAsTime(record[2]) THEN [err |-> "invalid start time", Hostname |-> <<>>]
  ELSE IF ~ParsesAsTime(record[3]) THEN [err |-> "invalid end time", Hostname |-> <<>>]
  ELSE [err |-> "nil", Hostname |-> record[1]]

NoParams == [id |-> 0, Hostname |-> <<>>]
NoResult == [id |-> 0, Duration |-> 0, Error |-> FALSE]

(***************************************************************************)
(* Runner.Run up to the call of ParseAndDistribute: the channels are made, *)
(* the workers and the collector are started.                              *)
(***************************************************************************)
HashIdle ==
  /\ hasher = New32a
  /\ numLanes = 1
  /\ hKey = <<>>
  /\ hHash = -1
  /\ hLane = -1
  /\ hFirst = <<>>
  /\ hEvals = 0

RunStart ==
  /\ pos = 0
  /\ ctxDone = FALSE
  /\ workerChannels = [i \in 1..workers |-> <<>>]
  /\ chanClosed = [i \in 1..workers |-> FALSE]
  /\ results = <<>>
  /\ resultsClosed = FALSE
  /\ runPc = "distribute"
  /\ closeIdx = 0
  /\ pdPc = "header"
  /\ pdErr = "nil"
  /\ pdParams = NoParams
  /\ wPc = [i \in 1..workers |-> "select"]
  /\ wItem = [i \in 1..workers |-> NoParams]
  /\ wResult = [i \in 1..workers |-> NoResult]
  /\ cPc = "range"
  /\ runErr = "nil"
  /\ runStats = <<>>
  /\ enqueued = {}
  /\ executedBy = {}
  /\ nPublished = 0
  /\ pdCtxAtCall = FALSE
  /\ sentLog = <<>>
  /\ sentAfterCancel = 0
  /\ publishedLog = <<>>
  /\ itemCount = [id \in 1..Len(records) |-> [taken |-> 0, executed |-> 0, recorded |-> 0]]

RunInit ==
  /\ strictMode \in BOOLEAN
  /\ workers \in WorkerCounts
  /\ chanCap = RunChannelSize
  /\ execErrors = BOOLEAN
  /\ header \in {"ok", "eof", "err"}
  /\ records \in SeqsUpTo(Reads, MaxRecords)
  /\ header = "eof" => records = <<>>
  /\ RunStart

\* no goroutine but the collector uses the accumulator
AccIdle ==
  /\ mu = 0
  /\ callPc = [c \in 1..NumCallers |-> "idle"]
  /\ callOp = [c \in 1..NumCallers |-> "none"]
  /\ callArg = [c \in 1..NumCallers |-> 0]
  /\ callReg = [c \in 1..NumCallers |-> 0]
  /\ callsMade = [c \in 1..NumCallers |-> 0]
  /\ started = [Record |-> 0, RecordError |-> 0]
  /\ finished = [Record |-> 0, RecordError |-> 0]
  /\ errorCalls = 0
  /\ computed = FALSE
  /\ recomputed = FALSE

\* a build for any architecture
AnyBuild == fusedMulAdd \in BOOLEAN

Init ==
  /\ HashIdle
  /\ AccIdle
  /\ fusedMulAdd = FALSE
  /\ RunInit
  /\ recorded = <<>>
  /\ statistics = New

(***************************************************************************)
(* The cancellation signal (main's setupShutdown calls cancel).            *)
(***************************************************************************)
Cancel ==
  /\ ~ctxDone
  /\ ctxDone' = TRUE
  /\ UNCHANGED <<strictMode, workers, chanCap, execErrors, header, records, pos,
                 workerChannels, chanClosed, results, resultsClosed, runPc, closeIdx, pdPc,
                 pdErr, pdParams, wPc, wItem, wResult, cPc, runErr, runStats,
                 enqueued, executedBy, nPublished, pdCtxAtCall, sentLog, sentAfterCancel,
                 publishedLog, itemCount, statistics, hashVars, accVars>>

(***************************************************************************)
(* CSVParser.ParseAndDistribute                                            *)
(***************************************************************************)
pdFrame == <<strictMode, workers, chanCap, execErrors,
             header, records, ctxDone, chanClosed, results,
             resultsClosed, runPc, closeIdx, wPc, wItem, wResult, cPc, runErr,
             runStats, executedBy, nPublished, publishedLog, itemCount, statistics,
             hashVars, accVars>>

PDReturn(err) == pdPc' = "returned" /\ pdErr' = err

\* a parser that logs every failed read and continues
ReadErrorNeverAborts == FALSE

\* if p.strictMode, after a failed read
ReadErrorAborts == strictMode

\* a parser that never returns on a malformed record
ParseErrorNeverAborts == FALSE

\* a parser that returns on a malformed record in either mode
ParseErrorAlwaysAborts == TRUE

\* if p.strictMode, after a failed parseRecord
ParseErrorAborts == strictMode

\* a parser that goes on to the records when the header cannot be read
HeaderErrorIgnored == FALSE

\* _, err := p.reader.Read(); err != nil, for the header
HeaderReadFails == header # "ok"

\* read and skip the header
PDHeader ==
  /\ pdPc = "header"
  /\ pdCtxAtCall' = ctxDone
  /\ IF HeaderReadFails THEN PDReturn("failed to read header")
     ELSE pdPc' = "loop" /\ UNCHANGED pdErr
  /\ UNCHANGED <<pos, pdParams, workerChannels, enqueued, sentLog, sentAfterCancel>>
  /\ UNCHANGED pdFrame

\* a loop that does not check ctx.Done() before it reads
CancelNotChecked == FALSE

\* select { case <-ctx.Done(): ... default: } at the top of the loop
CancelSeen == ctxDone

\* one iteration of the loop, up to the select that sends
PDRead ==
  /\ pdPc = "loop"
  /\ IF CancelSeen
       THEN PDReturn("context canceled") /\ UNCHANGED <<pos, pdParams>>
     ELSE IF pos >= Len(records)
       THEN PDReturn("nil") /\ UNCHANGED <<pos, pdParams>>
     ELSE
       LET read   == records[pos + 1]
           parsed == parseRecord(read.record)
       IN  /\ pos' = pos + 1
           /\ IF read.err
                THEN /\ IF ReadErrorAborts THEN PDReturn("error reading CSV record")
                        ELSE UNCHANGED <<pdPc, pdErr>>
                     /\ UNCHANGED pdParams
              ELSE IF parsed.err # "nil"
                THEN /\ IF ParseErrorAborts THEN PDReturn("error parsing record")
                        ELSE UNCHANGED <<pdPc, pdErr>>
                     /\ UNCHANGED pdParams
              ELSE /\ pdParams' = [id |-> pos + 1, Hostname |-> parsed.Hostname]
                   /\ pdPc' = "send"
                   /\ UNCHANGED pdErr
  /\ UNCHANGED <<workerChannels, enqueued, pdCtxAtCall, sentLog, sentAfterCancel>>
  /\ UNCHANGED pdFrame

\* a send that does not select on ctx.Done()
PDSendUncancellable == FALSE /\ UNCHANGED vars

\* select: case <-ctx.Done()
PDSendCancelled ==
  /\ pdPc = "send"
  /\ ctxDone
  /\ PDReturn("context canceled")
  /\ pdParams' = NoParams
  /\ UNCHANGED <<pos, workerChannels, enqueued, pdCtxAtCall, sentLog, sentAfterCancel>>
  /\ UNCHANGED pdFrame

\* a lane queue without a capacity
LaneUnbounded(lane) == TRUE

\* the send on the lane can proceed: the queue, made with capacity
\* workerChannelSize, is not full
LaneHasRoom(lane) == Len(workerChannels[lane]) < chanCap

\* select: case workerChannels[workerID] <- params
PDSend ==
  /\ pdPc = "send"
  /\ LET lane == workerID(pdParams.Hostname, workers) + 1
     IN  /\ LaneHasRoom(lane)
         /\ workerChannels' = [workerChannels EXCEPT ![lane] = Append(@, pdParams)]
         /\ enqueued' = enqueued \cup
              {[id |-> pdParams.id, Hostname |-> pdParams.Hostname, lane |-> lane]}
         /\ sentLog' = Append(sentLog,
              [id |-> pdParams.id, Hostname |-> pdParams.Hostname, lane |-> lane])
  /\ sentAfterCancel' = IF ctxDone THEN sentAfterCancel + 1 ELSE sentAfterCancel
  /\ pdPc' = "loop"
  /\ pdParams' = NoParams
  /\ UNCHANGED <<pos, pdErr, pdCtxAtCall>>
  /\ UNCHANGED pdFrame

(***************************************************************************)
(* Runner.worker, for the worker started with workerChannels[i]            *)
(***************************************************************************)
wFrame == <<strictMode, workers, chanCap, execErrors,
            header, records, pos, ctxDone, chanClosed,
            resultsClosed, runPc, closeIdx, pdPc, pdErr, pdParams, cPc, runErr,
            runStats, enqueued, pdCtxAtCall, sentLog, sentAfterCancel, statistics, hashVars,
            accVars>>

\* every worker started with the first lane queue
WorkerLaneShared(i) == 1

\* every worker started with the lane queue after its own
WorkerLaneNext(i) == (i % workers) + 1

\* the lane queue worker i is started with: workerChannels[i]
WorkerLane(i) == i

\* outer select: case <-ctx.Done()
WorkerCancelled(i) ==
  /\ wPc[i] = "select"
  /\ ctxDone
  /\ wPc' = [wPc EXCEPT ![i] = "exited"]
  /\ UNCHANGED <<workerChannels, results, wItem, wResult, executedBy, nPublished,
                 publishedLog, itemCount>>
  /\ UNCHANGED wFrame

\* outer select: case params, ok := <-queries with ok
WorkerTake(i) ==
  /\ wPc[i] = "select"
  /\ workerChannels[WorkerLane(i)] # <<>>
  /\ LET params == Head(workerChannels[WorkerLane(i)])
     IN  /\ wItem' = [wItem EXCEPT ![i] = params]
         /\ executedBy' = executedBy \cup
              {[id |-> params.id, Hostname |-> params.Hostname, worker |-> i]}
         /\ itemCount' = [itemCount EXCEPT ![params.id].taken = @ + 1]
  /\ workerChannels' = [workerChannels EXCEPT ![WorkerLane(i)] = Tail(@)]
  /\ wPc' = [wPc EXCEPT ![i] = "execute"]
  /\ UNCHANGED <<results, wResult, nPublished, publishedLog>>
  /\ UNCHANGED wFrame

\* outer select: case params, ok := <-queries with !ok
WorkerLaneClosed(i) ==
  /\ wPc[i] = "select"
  /\ workerChannels[WorkerLane(i)] = <<>>
  /\ chanClosed[WorkerLane(i)]
  /\ wPc' = [wPc EXCEPT ![i] = "exited"]
  /\ UNCHANGED <<workerChannels, results, wItem, wResult, executedBy, nPublished,
                 publishedLog, itemCount>>
  /\ UNCHANGED wFrame

\* r.db.Execute between the two time stamps
WorkerExecute(i) ==
  /\ wPc[i] = "execute"
  /\ \E duration \in ExecDurations, failed \in execErrors :
       wResult' = [wResult EXCEPT
                     ![i] = [id |-> wItem[i].id, Duration |-> duration, Error |-> failed]]
  /\ itemCount' = [itemCount EXCEPT ![wItem[i].id].executed = @ + 1]
  /\ wPc' = [wPc EXCEPT ![i] = "publish"]
  /\ UNCHANGED <<workerChannels, results, wItem, executedBy, nPublished, publishedLog>>
  /\ UNCHANGED wFrame

\* inner select: case <-ctx.Done()
WorkerPublishCancelled(i) ==
  /\ wPc[i] = "publish"
  /\ ctxDone
  /\ wPc' = [wPc EXCEPT ![i] = "exited"]
  /\ UNCHANGED <<workerChannels, results, wItem, wResult, executedBy, nPublished,
                 publishedLog, itemCount>>
  /\ UNCHANGED wFrame

\* inner select: case results <- result{...}
WorkerPublish(i) ==
  /\ wPc[i] = "publish"
  /\ Len(results) < chanCap
  /\ results' = Append(results, wResult[i])
  /\ nPublished' = nPublished + 1
  /\ publishedLog' = Append(publishedLog, [id |-> wResult[i].id, worker |-> i])
  /\ wPc' = [wPc EXCEPT ![i] = "select"]
  /\ wItem' = [wItem EXCEPT ![i] = NoParams]
  /\ wResult' = [wResult EXCEPT ![i] = NoResult]
  /\ UNCHANGED <<workerChannels, executedBy, itemCount>>
  /\ UNCHANGED wFrame

(***************************************************************************)
(* Runner.collectResults                                                   *)
(***************************************************************************)
cFrame == <<strictMode, workers, chanCap, execErrors,
            header, records, pos, ctxDone, workerChannels,
            chanClosed, resultsClosed, runPc, closeIdx, pdPc, pdErr, pdParams,
            wPc, wItem, wResult, runErr, runStats, enqueued, executedBy,
            nPublished, pdCtxAtCall, sentLog, sentAfterCancel, publishedLog, hashVars, accVars>>

\* one iteration of for res := range results
CollectResult ==
  /\ cPc = "range"
  /\ results # <<>>
  /\ LET res == Head(results)
     IN  /\ statistics' = IF res.Error THEN RecordError(statistics)
                          ELSE Record(statistics, res.Duration)
         /\ itemCount' = [itemCount EXCEPT ![res.id].recorded = @ + 1]
  /\ results' = Tail(results)
  /\ UNCHANGED cPc
  /\ UNCHANGED cFrame

\* the range ends: results is closed and drained
CollectorDone ==
  /\ cPc = "range"
  /\ results = <<>>
  /\ resultsClosed
  /\ cPc' = "exited"
  /\ UNCHANGED <<results, statistics, itemCount>>
  /\ UNCHANGED cFrame

(***************************************************************************)
(* Runner.Run from the return of ParseAndDistribute on                     *)
(***************************************************************************)
rFrame == <<strictMode, workers, chanCap, execErrors,
            header, records, pos, ctxDone, workerChannels,
            results, pdPc, pdErr, pdParams, wPc, wItem, wResult, cPc, enqueued,
            executedBy, nPublished, pdCtxAtCall, sentLog, sentAfterCancel, publishedLog, itemCount,
            hashVars, accVars>>

\* err != nil and r.strictMode: return nil, err
RunReturnError ==
  /\ runPc = "distribute"
  /\ pdPc = "returned"
  /\ pdErr # "nil"
  /\ strictMode
  /\ runPc' = "returned"
  /\ runErr' = pdErr
  /\ runStats' = <<>>
  /\ UNCHANGED <<chanClosed, resultsClosed, closeIdx, statistics>>
  /\ UNCHANGED rFrame

\* err == nil, or the error is logged
RunDistributed ==
  /\ runPc = "distribute"
  /\ pdPc = "returned"
  /\ pdErr = "nil" \/ ~strictMode
  /\ runPc' = "closeChannels"
  /\ closeIdx' = 0
  /\ UNCHANGED <<chanClosed, resultsClosed, runErr, runStats, statistics>>
  /\ UNCHANGED rFrame

\* a closing loop that stops one lane short
LanesToCloseButLast == workers - 1

\* the lanes the closing loop closes: for i := 0; i < r.workers; i++
LanesToClose == workers

\* close(workerChannels[i]), one after the other
RunCloseChannel ==
  /\ runPc = "closeChannels"
  /\ closeIdx < LanesToClose
  /\ chanClosed' = [chanClosed EXCEPT ![closeIdx + 1] = TRUE]
  /\ closeIdx' = closeIdx + 1
  /\ runPc' = IF closeIdx + 1 = LanesToClose THEN "waitWorkers" ELSE runPc
  /\ UNCHANGED <<resultsClosed, runErr, runStats, statistics>>
  /\ UNCHANGED rFrame

\* a Run that does not wait for the workers
WorkersNotWaited == TRUE

\* workerWg.Wait() returns: every worker has returned
WorkersWaited == \A i \in 1..workers : wPc[i] = "exited"

\* workerWg.Wait() returns; close(results)
RunCloseResults ==
  /\ runPc = "waitWorkers"
  /\ WorkersWaited
  /\ resultsClosed' = TRUE
  /\ runPc' = "waitCollector"
  /\ UNCHANGED <<chanClosed, closeIdx, runErr, runStats, statistics>>
  /\ UNCHANGED rFrame

\* a Run that does not wait for the collector
CollectorNotWaited == TRUE

\* collectorWg.Wait() returns: collectResults has returned
CollectorWaited == cPc = "exited"

\* collectorWg.Wait() returns; ProcessingTime, Compute, return statistics, nil
RunFinish ==
  /\ runPc = "waitCollector"
  /\ CollectorWaited
  /\ \E elapsed \in ExecDurations :
       statistics' = Compute([statistics EXCEPT !.ProcessingTime = elapsed], fusedMulAdd)
  /\ runStats' = <<statistics'>>
  /\ runErr' = "nil"
  /\ runPc' = "returned"
  /\ UNCHANGED <<chanClosed, resultsClosed, closeIdx>>
  /\ UNCHANGED rFrame

Next ==
  \/ Cancel
  \/ PDHeader
  \/ PDRead
  \/ PDSendCancelled
  \/ PDSend
  \/ \E i \in 1..workers : WorkerCancelled(i)
  \/ \E i \in 1..workers : WorkerTake(i)
  \/ \E i \in 1..workers : WorkerLaneClosed(i)
  \/ \E i \in 1..workers : WorkerExecute(i)
  \/ \E i \in 1..workers : WorkerPublishCancelled(i)
  \/ \E i \in 1..workers : WorkerPublish(i)
  \/ CollectResult
  \/ CollectorDone
  \/ RunReturnError
  \/ RunDistributed
  \/ RunCloseChannel
  \/ RunCloseResults
  \/ RunFinish

Spec == Init /\ [][Next]_vars

(***************************************************************************)
(* Scheduling: every goroutine that can take a step eventually takes one   *)
(* (the Go scheduler starves no runnable goroutine), and every query       *)
(* execution returns (database.Execute runs under queryTimeout).  The      *)
(* cancellation signal is never forced to fire.                            *)
(***************************************************************************)
Ingestion == PDHeader \/ PDRead \/ PDSendCancelled \/ PDSend

WorkerStep(i) ==
  /\ i \in 1..workers
  /\ \/ WorkerCancelled(i)
     \/ WorkerTake(i)
     \/ WorkerLaneClosed(i)
     \/ WorkerExecute(i)
     \/ WorkerPublishCancelled(i)
     \/ WorkerPublish(i)

Collector == CollectResult \/ CollectorDone

Orchestrator ==
  RunReturnError \/ RunDistributed \/ RunCloseChannel \/ RunCloseResults \/ RunFinish

Fairness ==
  /\ WF_vars(Ingestion)
  /\ \A i \in WorkerCounts : WF_vars(WorkerStep(i))
  /\ WF_vars(Collector)
  /\ WF_vars(Orchestrator)

FairSpec == Init /\ [][Next]_vars /\ Fairness

(***************************************************************************)
(* Specification of hostnameHash alone: a run fixes the lane count and     *)
(* evaluates the hash of arbitrary hostnames, one after the other.         *)
(***************************************************************************)
Hostnames == SeqsUpTo(KeyBytes, MaxKeyLen)

\* a run that reads an empty input: the run's variables while hashes are evaluated
RunIdle ==
  /\ strictMode = FALSE
  /\ workers = 1
  /\ chanCap = RunChannelSize
  /\ execErrors = BOOLEAN
  /\ header = "eof"
  /\ records = <<>>
  /\ RunStart

HashInit ==
  /\ RunIdle
  /\ AccIdle
  /\ fusedMulAdd = FALSE
  /\ recorded = <<>>
  /\ statistics = New
  /\ hasher = New32a
  /\ numLanes \in 1..MaxLanes
  /\ hKey = <<>>
  /\ hHash = -1
  /\ hLane = -1
  /\ hFirst = <<>>
  /\ hEvals = 0

EvalHash(k) ==
  /\ hasher' = Write(New32a, k)
  /\ hKey' = k
  /\ hHash' = hostnameHash(k)
  /\ hLane' = workerID(k, numLanes)
  /\ hFirst' = IF hFirst = <<>> THEN <<k, hostnameHash(k), workerID(k, numLanes)>>
               ELSE hFirst
  /\ hEvals' = IF hEvals = 0 THEN 1 ELSE 2
  /\ UNCHANGED <<numLanes, runVars, statistics, accVars>>

HashNext == \E k \in Hostnames : EvalHash(k)

SpecHash == HashInit /\ [][HashNext]_vars

(***************************************************************************)
(* Concurrent callers of Statistics.Record and Statistics.RecordError.     *)
(* Each method locks s.mu, runs its statements one at a time               *)
(* (s.TotalQueries++ is a load and a store) and unlocks on return.         *)
(***************************************************************************)
callFrame == <<recorded, errorCalls, computed, recomputed, fusedMulAdd, hashVars,
              runVars>>

\* a Lock that does not wait
MutexIgnored == TRUE

\* s.mu.Lock() may proceed
MutexFree == mu = 0

\* a goroutine calls s.Record(duration)
CallRecord(c, duration) ==
  /\ callPc[c] = "idle"
  /\ callsMade[c] < MaxCalls
  /\ callPc' = [callPc EXCEPT ![c] = "lock"]
  /\ callOp' = [callOp EXCEPT ![c] = "Record"]
  /\ callArg' = [callArg EXCEPT ![c] = duration]
  /\ callsMade' = [callsMade EXCEPT ![c] = @ + 1]
  /\ started' = [started EXCEPT !.Record = @ + 1]
  /\ UNCHANGED <<mu, callReg, finished, statistics>>
  /\ UNCHANGED callFrame

\* a goroutine calls s.RecordError()
CallRecordError(c) ==
  /\ callPc[c] = "idle"
  /\ callsMade[c] < MaxCalls
  /\ callPc' = [callPc EXCEPT ![c] = "lock"]
  /\ callOp' = [callOp EXCEPT ![c] = "RecordError"]
  /\ callsMade' = [callsMade EXCEPT ![c] = @ + 1]
  /\ started' = [started EXCEPT !.RecordError = @ + 1]
  /\ UNCHANGED <<mu, callArg, callReg, finished, statistics>>
  /\ UNCHANGED callFrame

\* s.mu.Lock()
Lock(c) ==
  /\ callPc[c] = "lock"
  /\ MutexFree
  /\ mu' = c
  /\ callPc' = [callPc EXCEPT ![c] = "load"]
  /\ UNCHANGED <<callOp, callArg, callReg, callsMade, started, finished, statistics>>
  /\ UNCHANGED callFrame

\* s.TotalQueries++ : the load
LoadTotal(c) ==
  /\ callPc[c] = "load"
  /\ callReg' = [callReg EXCEPT ![c] = statistics.TotalQueries]
  /\ callPc' = [callPc EXCEPT ![c] = "store"]
  /\ UNCHANGED <<mu, callOp, callArg, callsMade, started, finished, statistics>>
  /\ UNCHANGED callFrame

\* s.TotalQueries++ : the store
StoreTotal(c) ==
  /\ callPc[c] = "store"
  /\ statistics' = [statistics EXCEPT !.TotalQueries = callReg[c] + 1]
  /\ callPc' = [callPc EXCEPT ![c] = IF callOp[c] = "Record" THEN "append" ELSE "unlock"]
  /\ UNCHANGED <<mu, callOp, callArg, callReg, callsMade, started, finished>>
  /\ UNCHANGED callFrame

\* s.durations = append(s.durations, duration)
AppendDuration(c) ==
  /\ callPc[c] = "append"
  /\ statistics' = [statistics EXCEPT !.durations = Append(@, callArg[c])]
  /\ callPc' = [callPc EXCEPT ![c] = "unlock"]
  /\ UNCHANGED <<mu, callOp, callArg, callReg, callsMade, started, finished>>
  /\ UNCHANGED callFrame

\* the deferred s.mu.Unlock(); the call returns
Unlock(c) ==
  /\ callPc[c] = "unlock"
  /\ mu' = 0
  /\ callPc' = [callPc EXCEPT ![c] = "idle"]
  /\ finished' = [finished EXCEPT ![callOp[c]] = @ + 1]
  /\ UNCHANGED <<callOp, callArg, callReg, callsMade, started, statistics>>
  /\ UNCHANGED callFrame

AccInit ==
  /\ HashIdle
  /\ RunIdle
  /\ AccIdle
  /\ fusedMulAdd = FALSE
  /\ recorded = <<>>
  /\ statistics = New

AccNext ==
  \/ \E c \in 1..NumCallers, d \in ExecDurations : CallRecord(c, d)
  \/ \E c \in 1..NumCallers : CallRecordError(c)
  \/ \E c \in 1..NumCallers : Lock(c)
  \/ \E c \in 1..NumCallers : LoadTotal(c)
  \/ \E c \in 1..NumCallers : StoreTotal(c)
  \/ \E c \in 1..NumCallers : AppendDuration(c)
  \/ \E c \in 1..NumCallers : Unlock(c)

SpecAcc == AccInit /\ [][AccNext]_vars

(***************************************************************************)
(* One goroutine using an accumulator: Record and RecordError, then        *)
(* Compute.  Each method runs under s.mu and is one step.                  *)
(***************************************************************************)
seqFrame == <<mu, callPc, callOp, callArg, callReg, callsMade, started, finished,
              fusedMulAdd, hashVars, runVars>>

DoRecord(duration) ==
  /\ ~computed
  /\ Len(recorded) < MaxSamples
  /\ statistics' = Record(statistics, duration)
  /\ recorded' = Append(recorded, duration)
  /\ UNCHANGED <<errorCalls, computed, recomputed>>
  /\ UNCHANGED seqFrame

DoRecordError ==
  /\ ~computed
  /\ statistics.TotalQueries - Len(recorded) < MaxErrors
  /\ statistics' = RecordError(statistics)
  /\ errorCalls' = errorCalls + 1
  /\ UNCHANGED <<recorded, computed, recomputed>>
  /\ UNCHANGED seqFrame

\* s.Compute(), the first call and one more
DoCompute ==
  /\ ~recomputed
  /\ statistics' = Compute(statistics, fusedMulAdd)
  /\ computed' = TRUE
  /\ recomputed' = computed
  /\ UNCHANGED <<recorded, errorCalls>>
  /\ UNCHANGED seqFrame

\* for _, d := range durations { s.Record(d) }: what the calls of Record leave
RecordAll(s, ds) ==
  [s EXCEPT !.TotalQueries = @ + Len(ds), !.durations = @ \o ds]

\* a new accumulator, or one a test has recorded its durations in
ComputeInit ==
  /\ HashIdle
  /\ RunIdle
  /\ AccIdle
  /\ AnyBuild
  /\ \E run \in {<<>>} \cup TestRuns :
       /\ recorded = run
       /\ statistics = RecordAll(New, run)

ComputeNext ==
  \/ \E d \in SampleDurations : DoRecord(d)
  \/ DoRecordError
  \/ DoCompute

SpecCompute == ComputeInit /\ [][ComputeNext]_vars

(***************************************************************************)
(* One accumulator whose methods are called in any order, Compute between  *)
(* calls of Record and RecordError included.  Here `computed` says that    *)
(* Compute was the last call.                                              *)
(***************************************************************************)
ThenRecord(duration) ==
  /\ Len(recorded) < MaxSamples
  /\ statistics' = Record(statistics, duration)
  /\ recorded' = Append(recorded, duration)
  /\ computed' = FALSE
  /\ UNCHANGED <<errorCalls, recomputed>>
  /\ UNCHANGED seqFrame

ThenRecordError ==
  /\ errorCalls < MaxErrors
  /\ statistics' = RecordError(statistics)
  /\ errorCalls' = errorCalls + 1
  /\ computed' = FALSE
  /\ UNCHANGED <<recorded, recomputed>>
  /\ UNCHANGED seqFrame

ThenCompute ==
  /\ ~computed
  /\ statistics' = Compute(statistics, fusedMulAdd)
  /\ computed' = TRUE
  /\ UNCHANGED <<recorded, errorCalls, recomputed>>
  /\ UNCHANGED seqFrame

\* a new accumulator, or one whose ProcessingTime has been set
CallsInit ==
  /\ HashIdle
  /\ RunIdle
  /\ AccIdle
  /\ AnyBuild
  /\ recorded = <<>>
  /\ \E elapsed \in {0} \cup ExecDurations :
       statistics = [New EXCEPT !.ProcessingTime = elapsed]

CallsNext ==
  \/ \E d \in CallDurations : ThenRecord(d)
  \/ ThenRecordError
  \/ ThenCompute

SpecCalls == CallsInit /\ [][CallsNext]_vars

(***************************************************************************)
(* The same use of one accumulator, with int64 durations.                  *)
(***************************************************************************)
DoRecord64(duration) ==
  /\ ~computed
  /\ Len(recorded) < MaxLongSamples
  /\ statistics' = Record(statistics, duration)
  /\ recorded' = Append(recorded, duration)
  /\ UNCHANGED <<errorCalls, computed, recomputed>>
  /\ UNCHANGED seqFrame

DoCompute64 ==
  /\ ~computed
  /\ statistics' = Compute64(statistics, fusedMulAdd)
  /\ computed' = TRUE
  /\ UNCHANGED <<recorded, errorCalls, recomputed>>
  /\ UNCHANGED seqFrame

Compute64Init ==
  /\ HashIdle
  /\ RunIdle
  /\ AccIdle
  /\ AnyBuild
  /\ recorded = <<>>
  /\ statistics = New64

Compute64Next ==
  \/ \E d \in LongDurations : DoRecord64(d)
  \/ DoCompute64

SpecCompute64 == Compute64Init /\ [][Compute64Next]_vars

(***************************************************************************)
(* Runs with channels of the program's capacity: inputs of CapacityRecords *)
(* valid records of one hostname, so that they all go to one lane, and a   *)
(* database that executes every query.                                     *)
(***************************************************************************)
CapacityInit ==
  /\ HashIdle
  /\ AccIdle
  /\ fusedMulAdd = FALSE
  /\ recorded = <<>>
  /\ statistics = New
  /\ strictMode \in BOOLEAN
  /\ workers \in WorkerCounts
  /\ chanCap = workerChannelSize
  /\ execErrors = {FALSE}
  /\ header = "ok"
  /\ records = [k \in 1..CapacityRecords |->
                  [err |-> FALSE, record |-> <<<<97>>, GoodTime, GoodTime>>]]
  /\ RunStart

SpecCapacity == CapacityInit /\ [][Next]_vars

(***************************************************************************)
(* Properties.                                                             *)
(***************************************************************************)
\* a read that yields a record parseRecord accepts: three fields, both times
\* in the layout
ValidRead(read) ==
  /\ ~read.err
  /\ Len(read.record) = 3
  /\ read.record[2] = GoodTime
  /\ read.record[3] = GoodTime

\* the valid records of the input, and whether it holds a malformed one
NValid == Cardinality({k \in 1..Len(records) : ValidRead(records[k])})
HasMalformed == \E k \in 1..Len(records) : ~ValidRead(records[k])

Returned == runPc = "returned"

\* C1: hostname affinity.  Params with equal hostname are sent on the same
\* lane, every params is taken by the worker of the lane it was sent on, and so
\* params with equal hostname are taken by the same worker.
C1_HostnameAffinity ==
  /\ \A e1, e2 \in enqueued : e1.Hostname = e2.Hostname => e1.lane = e2.lane
  /\ \A x \in executedBy : \E e \in enqueued : e.id = x.id /\ e.lane = x.worker
  /\ \A x1, x2 \in executedBy : x1.Hostname = x2.Hostname => x1.worker = x2.worker

\* C1 witness: with two workers, two records of one hostname were executed,
\* both by the same worker.
C1_Witness ==
  /\ workers = 2
  /\ \E x1, x2 \in executedBy :
       /\ x1.id # x2.id
       /\ x1.Hostname = x2.Hostname
       /\ x1.worker = x2.worker

\* C2: hostnameHash(k) is non-negative, hostnameHash(k) % L lies in [0, L), and
\* an evaluation of a hostname agrees with the first evaluation of the same
\* hostname in the run.
C2_HashRange ==
  hEvals > 0 =>
    /\ hHash >= 0
    /\ hLane >= 0
    /\ hLane < numLanes
    /\ hKey = hFirst[1] => (hHash = hFirst[2] /\ hLane = hFirst[3])

\* C2 witness: the empty hostname, evaluated again after it was evaluated
\* first, with more than one lane.
C2_Witness ==
  /\ hEvals = 2
  /\ hKey = <<>>
  /\ hFirst[1] = <<>>
  /\ numLanes = MaxLanes
  /\ hLane > 0

\* C3: no lost update.  Whenever no caller holds the mutex, TotalQueries is
\* the number of Record and RecordError calls that returned and
\* len(durations) the number of Record calls that returned; once every call
\* has returned these are the numbers M+K and M of calls made.
C3_NoLostUpdate ==
  /\ mu = 0 =>
       /\ statistics.TotalQueries = finished.Record + finished.RecordError
       /\ Len(statistics.durations) = finished.Record
  /\ (\A c \in 1..NumCallers : callPc[c] = "idle") =>
       /\ statistics.TotalQueries = started.Record + started.RecordError
       /\ Len(statistics.durations) = started.Record

\* C3 witness: every caller has made all its calls, calls of both methods
\* among them, and all have returned.
C3_Witness ==
  /\ \A c \in 1..NumCallers : callPc[c] = "idle" /\ callsMade[c] = MaxCalls
  /\ finished.Record >= 2
  /\ finished.RecordError >= 1

\* C4: in lenient mode without cancellation Run returns a nil error and
\* statistics whose TotalQueries is the number of valid records of the input.
C4_LenientCountsValid ==
  (Returned /\ ~strictMode /\ ~ctxDone) =>
    /\ runErr = "nil"
    /\ runStats # <<>>
    /\ runStats[1].TotalQueries = NValid

\* C4, for the inputs whose header is read (or that are empty): the same.
C4_LenientCountsValidAfterHeader ==
  (Returned /\ ~strictMode /\ ~ctxDone /\ header # "err") =>
    /\ runErr = "nil"
    /\ runStats # <<>>
    /\ runStats[1].TotalQueries = NValid

\* C5: in strict mode, when the input holds a malformed record, Run returns a
\* non-nil error and nil statistics.
C5_StrictMalformedFails ==
  (Returned /\ strictMode /\ HasMalformed) => (runErr # "nil" /\ runStats = <<>>)

\* C5 witness: Run has returned so in strict mode, without cancellation, after
\* a valid record that preceded the malformed one was executed and recorded.
C5_Witness ==
  /\ Returned
  /\ strictMode
  /\ ~ctxDone
  /\ HasMalformed
  /\ runErr = "error parsing record"
  /\ statistics.TotalQueries >= 1

\* C6: when Run returns the error of a failed ingestion, every lane queue has
\* been closed (so that the workers, and then the collector, terminate without
\* the cancellation signal).
C6_NoLeakOnStrictFailure ==
  (Returned /\ runErr # "nil") => \A i \in 1..workers : chanClosed[i]

\* C7: when ingestion observed the cancellation signal, Run returns the
\* cancellation error, in strict and in lenient mode.
C7_CancelledRunReturnsError ==
  (Returned /\ pdErr = "context canceled") => runErr = "context canceled"

\* C8: once the cancellation signal has fired, Run eventually returns.
C8_NoHangOnCancel == ctxDone ~> Returned

\* C8 witness: Run has returned after a cancellation that found a lane queue
\* full (and left it full).
C8_Witness ==
  /\ Returned
  /\ ctxDone
  /\ \E i \in 1..workers : Len(workerChannels[i]) = chanCap

\* C9: when Run returns a nil error, TotalQueries is the number of params
\* ingestion sent on the lanes, which is the number of valid records.
C9_NilMeansComplete ==
  (Returned /\ runErr = "nil") =>
    /\ runStats # <<>>
    /\ runStats[1].TotalQueries = Cardinality(enqueued)
    /\ Cardinality(enqueued) = NValid

IsSorted(ds) == \A i, j \in 1..Len(ds) : i <= j => ds[i] <= ds[j]

\* how often d occurs in ds
Count(ds, d) == Cardinality({i \in 1..Len(ds) : ds[i] = d})

\* C10: after Compute on n >= 1 recorded successes, durations holds the
\* recorded durations sorted ascending, MinTime is the smallest and MaxTime
\* the largest of them, AvgTime is their sum divided by n, truncated, and
\* MedianTime is the middle one (n odd) or the truncated average of the two
\* middle ones (n even).  [100,200,150,300,250] gives 100/300/200/200 and
\* [100,200,300,400] gives the median 250.
C10_ComputeSummary ==
  (computed /\ Len(recorded) >= 1) =>
    LET ds == statistics.durations
        n  == Len(recorded)
    IN  /\ Len(ds) = n
        /\ IsSorted(ds)
        /\ \A d \in SampleDurations : Count(ds, d) = Count(recorded, d)
        /\ statistics.MinTime = ds[1]
        /\ \A i \in 1..n : statistics.MinTime <= recorded[i]
        /\ statistics.MaxTime = ds[n]
        /\ \A i \in 1..n : statistics.MaxTime >= recorded[i]
        /\ statistics.AvgTime * n <= SumSeq(recorded)
        /\ SumSeq(recorded) < (statistics.AvgTime + 1) * n
        /\ n % 2 = 1 => statistics.MedianTime = ds[(n + 1) \div 2]
        /\ n % 2 = 0 =>
             /\ 2 * statistics.MedianTime <= ds[n \div 2] + ds[(n \div 2) + 1]
             /\ ds[n \div 2] + ds[(n \div 2) + 1] < (2 * statistics.MedianTime) + 2
        /\ recorded = <<100, 200, 150, 300, 250>> =>
             /\ statistics.MinTime = 100
             /\ statistics.MaxTime = 300
             /\ statistics.AvgTime = 200
             /\ statistics.MedianTime = 200
        /\ recorded = <<100, 200, 300, 400>> => statistics.MedianTime = 250

\* C10 witness: Compute has run on the five durations of the example, recorded
\* out of order.
C10_Witness ==
  /\ computed
  /\ recorded = <<100, 200, 150, 300, 250>>
  /\ statistics.durations = <<100, 150, 200, 250, 300>>
  /\ statistics.MedianTime = 200

\* v is the linear interpolation of the sorted samples ds at rank p*(n-1)/100,
\* as a whole duration: the last sample when the upper index is n or more; else
\* less than one duration away from
\* ds[floor] + fraction * (ds[ceil] - ds[floor]), all three scaled by 100 here
InterpolatesAt(ds, p, v) ==
  LET n        == Len(ds)
      num      == p * (n - 1)
      lower    == num \div 100
      fraction == num % 100
  IN  IF lower + 1 >= n THEN v = ds[n]
      ELSE
        LET gap == fraction * (ds[lower + 2] - ds[lower + 1])
            off == 100 * (v - ds[lower + 1])
        IN  off > gap - 100 /\ off < gap + 100

\* v is at most one duration away from the linear interpolation
NearlyInterpolatesAt(ds, p, v) ==
  LET n        == Len(ds)
      num      == p * (n - 1)
      lower    == num \div 100
      fraction == num % 100
  IN  IF lower + 1 >= n THEN v = ds[n]
      ELSE
        LET gap == fraction * (ds[lower + 2] - ds[lower + 1])
            off == 100 * (v - ds[lower + 1])
        IN  off >= gap - 100 /\ off <= gap + 100

Within(v, centre, tolerance) == v >= centre - tolerance /\ v <= centre + tolerance

\* C11: after Compute on n >= 1 samples, P90, P95 and P99 are the linear
\* interpolation of the sorted samples at rank (p/100)*(n-1) between the
\* samples at floor(rank) and ceil(rank), the last sample when the upper index
\* would be n or more; for the samples 1..100 ms they are within 1 ms of 90, 95
\* and 99 ms.
C11_PercentileInterpolates ==
  (computed /\ recorded # <<>>) =>
    /\ InterpolatesAt(statistics.durations, 90, statistics.P90)
    /\ InterpolatesAt(statistics.durations, 95, statistics.P95)
    /\ InterpolatesAt(statistics.durations, 99, statistics.P99)
    /\ recorded = HundredMs =>
         /\ Within(statistics.P90, 90, 1)
         /\ Within(statistics.P95, 95, 1)
         /\ Within(statistics.P99, 99, 1)

\* What does hold of the percentiles: each is at most one duration away from
\* the interpolation, and the 1..100 ms samples give 90, 95, 99 ms within 1 ms.
C11_PercentileNearlyInterpolates ==
  (computed /\ recorded # <<>>) =>
    /\ NearlyInterpolatesAt(statistics.durations, 90, statistics.P90)
    /\ NearlyInterpolatesAt(statistics.durations, 95, statistics.P95)
    /\ NearlyInterpolatesAt(statistics.durations, 99, statistics.P99)
    /\ recorded = HundredMs =>
         /\ Within(statistics.P90, 90, 1)
         /\ Within(statistics.P95, 95, 1)
         /\ Within(statistics.P99, 99, 1)

\* C12: Compute on an accumulator with no recorded success, with or without
\* recorded errors, returns and leaves MinTime, MaxTime, MedianTime, AvgTime,
\* P90, P95 and P99 at zero.
C12_ComputeEmpty ==
  (computed /\ recorded = <<>>) =>
    /\ statistics.MinTime = 0
    /\ statistics.MaxTime = 0
    /\ statistics.MedianTime = 0
    /\ statistics.AvgTime = 0
    /\ statistics.P90 = 0
    /\ statistics.P95 = 0
    /\ statistics.P99 = 0
    /\ statistics.durations = <<>>

\* C12 witness: Compute has run on an accumulator that recorded an error and
\* no success.
C12_Witness ==
  /\ computed
  /\ recorded = <<>>
  /\ statistics.TotalQueries = 1
  /\ statistics.MinTime = 0

\* C13: if the cancellation signal has fired when ParseAndDistribute is called,
\* it returns the cancellation error and sends no params on any lane, whatever
\* the input holds.
C13_CancelledBeforeCall ==
  (pdPc = "returned" /\ pdCtxAtCall) =>
    /\ pdErr = "context canceled"
    /\ sentLog = <<>>
    /\ \A i \in 1..workers : workerChannels[i] = <<>>

\* C13, for the inputs whose header is read: the same.
C13_CancelledBeforeCallAfterHeader ==
  (pdPc = "returned" /\ pdCtxAtCall /\ header = "ok") =>
    /\ pdErr = "context canceled"
    /\ sentLog = <<>>
    /\ \A i \in 1..workers : workerChannels[i] = <<>>

\* the positions of the valid records of the input, in input order
ValidIds ==
  SelectSeq([k \in 1..Len(records) |-> k], LAMBDA k : ValidRead(records[k]))

\* one send per record at the positions ids, in that order, each on the lane
\* hostnameHash(hostname) % numWorkers (lanes are numbered from 1 here)
SendsOf(ids) ==
  [j \in 1..Len(ids) |->
     [id       |-> ids[j],
      Hostname |-> records[ids[j]].record[1],
      lane     |-> GoRem(hostnameHash(records[ids[j]].record[1]), workers) + 1]]

\* C14: in lenient mode without cancellation, on an input with a header,
\* ParseAndDistribute returns nil after it has sent exactly the valid records,
\* each once and in input order, each on lane hostnameHash(hostname) %
\* numWorkers; no malformed record is sent.
C14_LenientDistributesValid ==
  (pdPc = "returned" /\ ~strictMode /\ ~ctxDone /\ header = "ok") =>
    /\ pdErr = "nil"
    /\ sentLog = SendsOf(ValidIds)

\* C14 witness: lenient ParseAndDistribute has returned nil on an input of a
\* malformed and a valid record, having sent one params.
C14_Witness ==
  /\ pdPc = "returned"
  /\ ~strictMode
  /\ ~ctxDone
  /\ header = "ok"
  /\ pdErr = "nil"
  /\ Len(records) = 2
  /\ \E k \in 1..2 : ~records[k].err /\ parseRecord(records[k].record).err # "nil"
  /\ Len(sentLog) = 1

\* the position of the first record of the input that is not valid (0: none)
FirstInvalid ==
  IF HasMalformed
    THEN CHOOSE k \in 1..Len(records) :
           /\ ~ValidRead(records[k])
           /\ \A j \in 1..(k - 1) : ValidRead(records[j])
    ELSE 0

\* the first record that is not valid is read, and fails to parse
FirstInvalidFailsToParse ==
  /\ FirstInvalid > 0
  /\ ~records[FirstInvalid].err

\* C15: in strict mode (without cancellation), ParseAndDistribute returns a
\* non-nil error on the first record that fails to parse: it has read no record
\* after that one, it has sent the records before it and nothing else, and no
\* lane queue is closed.
C15_StrictStopsAtFirstFailure ==
  (pdPc = "returned" /\ strictMode /\ ~ctxDone /\ header = "ok"
     /\ FirstInvalidFailsToParse) =>
    /\ pdErr = "error parsing record"
    /\ pos = FirstInvalid
    /\ sentLog = SendsOf([k \in 1..(FirstInvalid - 1) |-> k])
    /\ \A i \in 1..workers : ~chanClosed[i]

\* C15 witness: strict ParseAndDistribute has returned the parse error on a
\* malformed record that a valid record follows; it read one record and sent
\* nothing.
C15_Witness ==
  /\ pdPc = "returned"
  /\ strictMode
  /\ ~ctxDone
  /\ header = "ok"
  /\ Len(records) = 2
  /\ FirstInvalid = 1
  /\ ~records[1].err
  /\ ValidRead(records[2])
  /\ pdErr = "error parsing record"
  /\ pos = 1
  /\ sentLog = <<>>

\* the error Run returns, from what ParseAndDistribute returned and the mode
RunErrorOf(err, strict) == IF strict /\ err # "nil" THEN err ELSE "nil"

\* C16: a failed query execution stops no worker and aborts no run.  A worker
\* that has executed an item goes on to publish the outcome of that item, failed
\* or not; a worker publishing a failed outcome returns to its lane (it exits
\* only if the cancellation signal has fired); the collector counts a failed
\* outcome with RecordError (TotalQueries + 1, durations unchanged); and the
\* error Run returns depends on ParseAndDistribute's error and the mode only.
C16_ExecutionFailureIsLocal ==
  [][/\ \A i \in 1..workers :
          (wPc[i] = "execute" /\ wPc'[i] # "execute") =>
            (wPc'[i] = "publish" /\ wResult'[i].id = wItem[i].id)
     /\ \A i \in 1..workers :
          (wPc[i] = "publish" /\ wResult[i].Error /\ wPc'[i] # "publish") =>
            \/ wPc'[i] = "select" /\ results' = Append(results, wResult[i])
            \/ wPc'[i] = "exited" /\ ctxDone
     /\ (Len(results') < Len(results) /\ Head(results).Error) =>
          /\ statistics'.TotalQueries = statistics.TotalQueries + 1
          /\ statistics'.durations = statistics.durations
     /\ (runPc # "returned" /\ runPc' = "returned") =>
          runErr' = RunErrorOf(pdErr, strictMode)
    ]_vars

\* C16 witness: the only worker's first execution failed, the collector has
\* counted it as an error, and the worker is executing its next item.
C16_Witness ==
  /\ workers = 1
  /\ ~ctxDone
  /\ statistics.TotalQueries = 1
  /\ statistics.durations = <<>>
  /\ wPc[1] = "execute"
  /\ wItem[1].id = 2

\* C17: a worker that attempts to publish an outcome when the cancellation
\* signal has fired exits without publishing it, also when the result channel
\* has room: nothing is added to the result channel.
C17_CancelledPublishDrops ==
  [][\A i \in 1..workers :
       (ctxDone /\ wPc[i] = "publish" /\ wPc'[i] # "publish") =>
         /\ wPc'[i] = "exited"
         /\ results' = results
         /\ publishedLog' = publishedLog
    ]_vars

\* C18: once the cancellation signal has fired, no worker takes a further item
\* from its lane and ingestion sends no further item.
C18_NoNewWorkAfterCancel ==
  [][ctxDone =>
       /\ \A i \in 1..workers : ~(wPc[i] = "select" /\ wPc'[i] = "execute")
       /\ executedBy' = executedBy
       /\ sentLog' = sentLog
    ]_vars

\* C19: when the cancellation signal has fired, every component that is at a
\* blocking wait can leave it by a step of its own, whatever the others do:
\* ingestion at its send, a worker at either of its selects, and the collector
\* waiting for an outcome.
C19_WaitsArePreemptable ==
  ctxDone =>
    /\ pdPc = "send" => ENABLED PDSendCancelled
    /\ \A i \in 1..workers : wPc[i] = "select" => ENABLED WorkerCancelled(i)
    /\ \A i \in 1..workers : wPc[i] = "publish" => ENABLED WorkerPublishCancelled(i)
    /\ (cPc = "range" /\ results = <<>>) => ENABLED Collector

\* C19 without the collector: ingestion and the workers can leave their waits
C19_SelectsArePreemptable ==
  ctxDone =>
    /\ pdPc = "send" => ENABLED PDSendCancelled
    /\ \A i \in 1..workers : wPc[i] = "select" => ENABLED WorkerCancelled(i)
    /\ \A i \in 1..workers : wPc[i] = "publish" => ENABLED WorkerPublishCancelled(i)

\* the ids sent on lane l, in the order they were sent
SentIds(l) ==
  LET sends == SelectSeq(sentLog, LAMBDA e : e.lane = l)
  IN  [j \in 1..Len(sends) |-> sends[j].id]

\* the lane the params id was sent on
LaneOfId(id) == sentLog[CHOOSE j \in 1..Len(sentLog) : sentLog[j].id = id].lane

\* the ids of the outcomes published for lane l, in the order they were sent on
\* the result channel
PublishedIds(l) ==
  LET pubs == SelectSeq(publishedLog, LAMBDA e : LaneOfId(e.id) = l)
  IN  [j \in 1..Len(pubs) |-> pubs[j].id]

IsPrefix(a, b) == Len(a) <= Len(b) /\ a = SubSeq(b, 1, Len(a))

C20_OrderAcrossLanes ==
  \A j, k \in 1..Len(publishedLog) : j < k => publishedLog[j].id < publishedLog[k].id

\* the outcomes of params id sent on the result channel so far
PublishedCount(id) ==
  Cardinality({j \in 1..Len(publishedLog) : publishedLog[j].id = id})

\* the outcomes of params id waiting in the result channel
PendingCount(id) ==
  Cardinality({j \in 1..Len(results) : results[j].id = id})

\* Run has returned statistics, no cancellation signal has fired
FinishedUncancelled == Returned /\ runErr = "nil" /\ ~ctxDone

\* C21: every lane queue has one consumer: worker i takes only items that were
\* sent on lane i.  An enqueued item is taken by at most one worker, at most
\* once, and executed at most once; in a run that returns its statistics
\* without cancellation it is taken and executed exactly once.  Each published
\* outcome is either still in the result channel or has been recorded by the
\* collector exactly once.
C21_SingleConsumerExactlyOnce ==
  /\ \A e \in executedBy :
       \E q \in enqueued : q.id = e.id /\ q.lane = e.worker
  /\ \A id \in DOMAIN itemCount :
       /\ Cardinality({e \in executedBy : e.id = id}) <= 1
       /\ itemCount[id].taken <= 1
       /\ itemCount[id].executed <= itemCount[id].taken
       /\ PublishedCount(id) <= itemCount[id].executed
       /\ itemCount[id].recorded + PendingCount(id) = PublishedCount(id)
       /\ (id \notin {q.id : q \in enqueued}) => itemCount[id].taken = 0
  /\ FinishedUncancelled =>
       \A q \in enqueued :
         /\ itemCount[q.id].taken = 1
         /\ itemCount[q.id].executed = 1
         /\ itemCount[q.id].recorded = 1

\* C21 witness: a run of two workers has returned its statistics without
\* cancellation, and each worker has taken and executed one item.
C21_Witness ==
  /\ FinishedUncancelled
  /\ workers = 2
  /\ \A i \in 1..workers : \E e \in executedBy : e.worker = i
  /\ \A q \in enqueued : itemCount[q.id].recorded = 1

\* the read ParseAndDistribute makes in this step: the position it reads, 0 when
\* the step reads nothing
ReadInStep == IF pos' = pos + 1 THEN pos + 1 ELSE 0

\* what the step does after the read failed with error err: in strict mode
\* ParseAndDistribute returns err, in lenient mode it goes on to the next read;
\* it holds no params to send and sends nothing
FailureHandled(err) ==
  /\ strictMode => (pdPc' = "returned" /\ pdErr' = err)
  /\ ~strictMode => (pdPc' = "loop" /\ pdErr' = pdErr)
  /\ pdParams' = NoParams
  /\ workerChannels' = workerChannels
  /\ enqueued' = enqueued
  /\ sentLog' = sentLog

\* C22: a read that fails is handled like a record that fails to parse: in
\* strict mode ParseAndDistribute returns the error, in lenient mode it skips
\* the read and continues with the next one, and in both modes nothing is ever
\* enqueued for the failed read.
C22_ReadFailureLikeParseFailure ==
  [][/\ (ReadInStep > 0 /\ records[ReadInStep].err) =>
          FailureHandled("error reading CSV record")
     /\ (ReadInStep > 0 /\ ~records[ReadInStep].err /\ ~ValidRead(records[ReadInStep])) =>
          FailureHandled("error parsing record")
     /\ \A q \in enqueued' : ~records[q.id].err
    ]_vars

\* C22 witness: in lenient mode the first read failed, and the record after it
\* has been enqueued.
C22_Witness ==
  /\ ~strictMode
  /\ Len(records) = 2
  /\ records[1].err
  /\ \E q \in enqueued : q.id = 2

\* C22 witness, strict mode: ParseAndDistribute has returned the error of a
\* failed read that followed an enqueued record.
C22_WitnessStrict ==
  /\ strictMode
  /\ pdErr = "error reading CSV record"
  /\ enqueued # {}

\* ingestion has returned, every worker has left its loop with its lane
\* drained, the collector has left its loop with the result channel drained,
\* and Run has returned
AllTerminated ==
  /\ pdPc = "returned"
  /\ \A i \in 1..workers : wPc[i] = "exited" /\ workerChannels[i] = <<>>
  /\ cPc = "exited"
  /\ results = <<>>
  /\ Returned

\* C23: termination without cancellation.  In lenient mode, whatever the
\* (finite) input and the worker count, unless the cancellation signal fires
\* ingestion returns, the workers drain their lanes and terminate, the collector
\* terminates and Run returns.
C23_LenientRunTerminates == <>(strictMode \/ ctxDone \/ AllTerminated)

\* C23 witness: a lenient run whose input failed on its first read has
\* terminated without cancellation, with the record after it enqueued.
C23_Witness ==
  /\ ~strictMode
  /\ ~ctxDone
  /\ AllTerminated
  /\ records # <<>>
  /\ records[1].err
  /\ enqueued # {}

\* C23 witness, queues: a lenient run of one worker has terminated without
\* cancellation after two items went through its lane.
C23_WitnessBounded ==
  /\ ~strictMode
  /\ ~ctxDone
  /\ AllTerminated
  /\ workers = 1
  /\ Cardinality(enqueued) >= 2

\* the step in which Run calls Compute and returns the statistics
ComputeStep == runPc # "returned" /\ runPc' = "returned" /\ runStats' # <<>>

\* C24: the accumulator is frozen by Compute.  When Run calls Compute every
\* worker and the collector have terminated and every published outcome has
\* been recorded; from then on the accumulator is the statistics Run returned
\* and no step changes it.
C24_FrozenByCompute ==
  [][/\ ComputeStep =>
          /\ \A i \in 1..workers : wPc[i] = "exited"
          /\ cPc = "exited"
          /\ results = <<>>
          /\ statistics.TotalQueries = nPublished
          /\ \A j \in 1..Len(publishedLog) : itemCount[publishedLog[j].id].recorded = 1
     /\ runStats # <<>> =>
          /\ runStats[1] = statistics
          /\ statistics' = statistics
          /\ runStats' = runStats
          /\ itemCount' = itemCount
    ]_vars

\* C24 witness: Run has returned statistics computed over two recorded
\* outcomes, in a run whose cancellation signal has fired.
C24_Witness ==
  /\ Returned
  /\ runStats # <<>>
  /\ runStats[1].TotalQueries = 2
  /\ ctxDone
  /\ Len(publishedLog) = 2

\* C25: every lane queue holds at most 10 items and the result channel at most
\* 10 outcomes, whatever the worker count.  No item is dropped because its
\* lane is full: while ingestion holds a params for a full lane it keeps it,
\* and its only steps are the send (once the lane has room) and the return on
\* cancellation.
C25_ChannelsBounded ==
  [][/\ \A i \in 1..workers : Len(workerChannels[i]) <= 10
     /\ Len(results) <= 10
     /\ \A i \in 1..workers :
          (pdPc = "send" /\ Len(workerChannels[i]) = 10
             /\ workerID(pdParams.Hostname, workers) + 1 = i) =>
            \/ pdPc' = "send" /\ pdParams' = pdParams /\ sentLog' = sentLog
            \/ ctxDone /\ pdPc' = "returned" /\ pdErr' = "context canceled"
     /\ (pdPc = "send" /\ pdPc' = "loop") =>
          /\ sentLog' = Append(sentLog, [id |-> pdParams.id,
                                         Hostname |-> pdParams.Hostname,
                                         lane |-> workerID(pdParams.Hostname, workers) + 1])
    ]_vars

\* C25 witness: a lane queue holds 10 items while ingestion holds the next one
\* for it, and the result channel holds 10 outcomes.
C25_Witness ==
  /\ pdPc = "send"
  /\ \E i \in 1..workers :
       /\ Len(workerChannels[i]) = 10
       /\ workerID(pdParams.Hostname, workers) + 1 = i
  /\ ~ctxDone

\* C25 witness, result channel: it holds 10 outcomes while a worker holds the
\* next one.
C25_WitnessResults ==
  /\ Len(results) = 10
  /\ \E i \in 1..workers : wPc[i] = "publish"

\* C26: Compute is idempotent.  A second call of Compute, with no Record or
\* RecordError between the two, leaves every field of the accumulator
\* (TotalQueries, MinTime, MaxTime, MedianTime, AvgTime, P90, P95, P99 and the
\* sorted durations) as the first call left it.
C26_ComputeIdempotent ==
  [][(computed /\ ~recomputed /\ recomputed') => statistics' = statistics]_vars

\* C26 witness: Compute has been called twice on an accumulator that holds an
\* error and durations recorded out of order.
C26_Witness ==
  /\ recomputed
  /\ Len(recorded) >= 3
  /\ recorded[1] > recorded[2]
  /\ statistics.TotalQueries > Len(recorded)
  /\ statistics.P95 > statistics.MedianTime

\* what k calls of RecordError leave
RecordErrors(s, k) == [s EXCEPT !.TotalQueries = @ + k]

\* the fields Compute reports
Summary(s) ==
  <<s.TotalQueries, s.MinTime, s.MaxTime, s.MedianTime, s.AvgTime, s.P90, s.P95,
    s.P99>>

\* C27: the accumulator is order-insensitive.  Whatever the order of the
\* Record and RecordError calls, Compute yields the TotalQueries, MinTime,
\* MaxTime, MedianTime, AvgTime, P90, P95 and P99 it yields when the same
\* errors are recorded first and the same durations in ascending order; so two
\* call sequences that are permutations of each other yield the same.
C27_OrderInsensitive ==
  (computed /\ ~recomputed) =>
    Summary(statistics) =
      Summary(Compute(RecordAll(RecordErrors(New, errorCalls), Sort(recorded)),
                      fusedMulAdd))

\* C27 witness: Compute has run once after one error and three or more durations
\* were recorded, the first three in descending order.
C27_Witness ==
  /\ computed
  /\ ~recomputed
  /\ errorCalls = 1
  /\ Len(recorded) >= 3
  /\ recorded[1] > recorded[2]
  /\ recorded[2] > recorded[3]
  /\ statistics.MedianTime = recorded[2]

\* C28: channel-close safety.  No params is sent on a lane queue that has been
\* closed and no outcome on the result channel once it is closed; the result
\* channel is closed only when every worker has terminated, the lanes only
\* when ingestion has returned; and no channel that is closed is closed again.
C28_ChannelCloseSafety ==
  [][/\ \A i \in 1..workers :
          Len(workerChannels'[i]) > Len(workerChannels[i]) => ~chanClosed[i]
     /\ sentLog' # sentLog => \A i \in 1..workers : ~chanClosed[i]
     /\ (Len(results') > Len(results) \/ nPublished' # nPublished) => ~resultsClosed
     /\ \A i \in 1..workers :
          (closeIdx' = i /\ closeIdx # i) =>
            /\ ~chanClosed[i]
            /\ chanClosed'[i]
            /\ pdPc = "returned"
     /\ (runPc = "waitWorkers" /\ runPc' # "waitWorkers") =>
          /\ ~resultsClosed
          /\ resultsClosed'
          /\ \A i \in 1..workers : wPc[i] = "exited"
     /\ \A i \in 1..workers : chanClosed[i] => chanClosed'[i]
     /\ resultsClosed => resultsClosed'
     /\ resultsClosed' => \A i \in 1..workers : chanClosed'[i] /\ wPc'[i] = "exited"
    ]_vars

\* C28 witness: both lanes and the result channel of a run of two workers are
\* closed, after params were sent and outcomes published.
C28_Witness ==
  /\ workers = 2
  /\ \A i \in 1..workers : chanClosed[i]
  /\ resultsClosed
  /\ Len(sentLog) = 2
  /\ nPublished = 2

\* the params workers have taken from their lanes so far
DequeuedCount == SumSeq([id \in 1..Len(records) |-> itemCount[id].taken])

\* the reads done so far that yielded a valid record
ValidReadCount == Cardinality({k \in 1..pos : ValidRead(records[k])})

\* C29: conservation.  In every reachable state, TotalQueries <= outcomes
\* published <= params dequeued by workers <= params enqueued by ingestion <=
\* valid records read so far.
C29_Conservation ==
  /\ statistics.TotalQueries <= nPublished
  /\ nPublished = Len(publishedLog)
  /\ nPublished <= DequeuedCount
  /\ DequeuedCount <= Len(sentLog)
  /\ Len(sentLog) = Cardinality(enqueued)
  /\ Len(sentLog) <= ValidReadCount

\* C29 witness: of two valid records read, enqueued and dequeued, both outcomes
\* are published and one is recorded.
C29_Witness ==
  /\ ValidReadCount = 2
  /\ DequeuedCount = 2
  /\ nPublished = 2
  /\ statistics.TotalQueries = 1

\* C29 witness, ingestion side: two valid records are read, one is enqueued and
\* none is dequeued.
C29_WitnessIngestion ==
  /\ ValidReadCount = 2
  /\ Len(sentLog) = 1
  /\ DequeuedCount = 0

C31_WitnessStrictEmpty ==
  /\ header = "eof"
  /\ strictMode
  /\ pdPc = "returned"
  /\ pdErr = "failed to read header"

\* the derived fields of the int64 accumulator s are mutually ordered
Ordered64(s) ==
  /\ LessEq64[s.MinTime, s.MedianTime] /\ LessEq64[s.MedianTime, s.MaxTime]
  /\ LessEq64[s.MinTime, s.AvgTime] /\ LessEq64[s.AvgTime, s.MaxTime]
  /\ LessEq64[s.MinTime, s.P90] /\ LessEq64[s.P90, s.P95]
  /\ LessEq64[s.P95, s.P99] /\ LessEq64[s.P99, s.MaxTime]

\* C32: after Compute on an accumulator with at least one recorded success,
\* MinTime <= MedianTime <= MaxTime, MinTime <= AvgTime <= MaxTime and
\* MinTime <= P90 <= P95 <= P99 <= MaxTime, whatever the non-negative
\* durations recorded.
C32_DerivedOrdered ==
  (computed /\ recorded # <<>>) => Ordered64(statistics)

\* the durations recorded are all at most 2^53 ns, which float64 holds
\* exactly; their sum is then far below 2^63
RecordedExactInFloat64 ==
  \A i \in 1..Len(recorded) : BigLess[recorded[i], BigAdd[ShiftLeft[<<1>>, 53], <<1>>]]

\* C32, for durations of at most 2^53 ns: the same.
C32_DerivedOrderedExact ==
  (computed /\ recorded # <<>> /\ RecordedExactInFloat64) => Ordered64(statistics)

\* C32, for the durations of SpecCompute: the same.
C32_DerivedOrderedShort ==
  (computed /\ recorded # <<>>) =>
    /\ statistics.MinTime <= statistics.MedianTime
    /\ statistics.MedianTime <= statistics.MaxTime
    /\ statistics.MinTime <= statistics.AvgTime
    /\ statistics.AvgTime <= statistics.MaxTime
    /\ statistics.MinTime <= statistics.P90
    /\ statistics.P90 <= statistics.P95
    /\ statistics.P95 <= statistics.P99
    /\ statistics.P99 <= statistics.MaxTime

\* the durations recorded are all ones the integers of the checker hold
RecordedShort ==
  \A i \in 1..Len(recorded) : Len(recorded[i]) <= 2

\* Compute on int64 durations leaves what Compute leaves, for the durations
\* that the integers of the checker hold
Compute64AgreesWithCompute ==
  (computed /\ RecordedShort) =>
    statistics =
      Widen(Compute(RecordAll(New, [i \in 1..Len(recorded) |-> BigInt[recorded[i]]]),
                    fusedMulAdd))

\* the fields Compute derives, and ProcessingTime
DerivedFields(s) ==
  <<s.ProcessingTime, s.MinTime, s.MaxTime, s.MedianTime, s.AvgTime, s.P90, s.P95, s.P99>>

\* how many times the duration v is in ds
Occurrences(ds, v) == Cardinality({i \in 1..Len(ds) : ds[i] = v})

\* C33: RecordError changes TotalQueries only; Record changes TotalQueries
\* and appends its duration to durations, and nothing else; Compute leaves
\* TotalQueries, ProcessingTime and the multiset of durations unchanged.
C33_FrameConditions ==
  [][/\ (errorCalls' # errorCalls) =>
          /\ statistics'.TotalQueries = statistics.TotalQueries + 1
          /\ statistics'.durations = statistics.durations
          /\ DerivedFields(statistics') = DerivedFields(statistics)
     /\ (recorded' # recorded) =>
          /\ statistics'.TotalQueries = statistics.TotalQueries + 1
          /\ statistics'.durations =
               Append(statistics.durations, recorded'[Len(recorded')])
          /\ DerivedFields(statistics') = DerivedFields(statistics)
     /\ (~computed /\ computed') =>
          /\ statistics'.TotalQueries = statistics.TotalQueries
          /\ statistics'.ProcessingTime = statistics.ProcessingTime
          /\ Len(statistics'.durations) = Len(statistics.durations)
          /\ \A v \in CallDurations :
               Occurrences(statistics'.durations, v) = Occurrences(statistics.durations, v)
    ]_vars

\* C33 witness: after Compute set the derived fields of an accumulator whose
\* ProcessingTime was set, a duration smaller than MinTime has been recorded
\* in it, and an error has been recorded in it.
C33_Witness ==
  /\ ~computed
  /\ errorCalls = 1
  /\ statistics.ProcessingTime = 1
  /\ statistics.TotalQueries = 4
  /\ Len(statistics.durations) = 3
  /\ statistics.MinTime > 0
  /\ statistics.durations[3] < statistics.MinTime
  /\ statistics.P99 > statistics.MinTime

====
